---- MODULE Spec2Model ----
(***************************************************************************)
(* A model of the LottieFiles adapter (lottieAdapter.js): the retry helper, *)
(* the provider search, and the import pipeline                            *)
(* (detail fetch -> locate -> download -> validate/minify -> gzip -> hash   *)
(* -> local cache write -> optional S3 upload -> manifest).                 *)
(*                                                                         *)
(* Text is modelled as a sequence of tokens (one-character or short         *)
(* strings), so that concatenation, search and case can be computed.       *)
(* An optional value is None (<<>>) or Some(v) (<<v>>).                      *)
(***************************************************************************)
EXTENDS Integers, Sequences, FiniteSets, TLC

VARIABLES
  env,         \* process.env: [apiKey, bucket, region], fixed per process
  s3,          \* module-level S3 client: TRUE iff it was constructed at load
  calls,       \* per in-flight adapter call: its position and locals
  localCache,  \* files under DEFAULT_CACHE_DIR: set of [name, bytes]
  s3Store,     \* objects in S3: set of [bucket, key, bytes]
  rt,          \* one stand-alone run of retry(fn, times, delayMs)
  probe        \* two payloads taken through content processing, side by side

vars == <<env, s3, calls, localCache, s3Store, rt, probe>>

(***************************************************************************)
(* Bounds of the model.                                                    *)
(***************************************************************************)
MaxTimes == 4        \* largest `times` given to the stand-alone retry run
MaxBodyLen == 3      \* longest downloaded body, in tokens

None == <<>>
Some(v) == <<v>>
IsSome(o) == o # <<>>
Val(o) == o[1]

(***************************************************************************)
(* retry(fn, times, delayMs): the catch block.  Given the number of        *)
(* failures so far it yields the new count, whether the error is rethrown, *)
(* and the delay of the timer that is otherwise awaited.                   *)
(***************************************************************************)
RetryCatchOffByOne(attempt, times, delayMs) ==
  LET a == attempt + 1 IN
  [attempt |-> a, rethrow |-> a > times, delay |-> delayMs * a]

RetryCatchExponential(attempt, times, delayMs) ==
  LET a == attempt + 1 IN
  [attempt |-> a, rethrow |-> a >= times, delay |-> delayMs * (2 ^ (a - 1))]

RetryCatchExactLimit(attempt, times, delayMs) ==
  LET a == attempt + 1 IN
  [attempt |-> a, rethrow |-> a = times, delay |-> delayMs * a]

RetryCatch(attempt, times, delayMs) ==
  LET a == attempt + 1 IN
  [attempt |-> a, rethrow |-> a >= times, delay |-> delayMs * a]

(***************************************************************************)
(* The stand-alone retry run.  The operation is the environment: in mode   *)
(* "alwaysFail" every call of it throws, in mode "any" each call may        *)
(* return or throw.  Each throw raises a fresh error, identified by the    *)
(* number of the call that raised it.                                      *)
(***************************************************************************)
TimesRange == (-1)..MaxTimes
Delays == {0, 100, 300}
OpModes == {"alwaysFail", "any"}

OpError(n) == [kind |-> "OpError", id |-> n]
NoError == [kind |-> "none", id |-> 0]

RtInit ==
  \E t \in TimesRange, d \in Delays, m \in OpModes :
    rt = [times |-> t, delayMs |-> d, mode |-> m, status |-> "calling",
          attempt |-> 0, ncalls |-> 0, waits |-> <<>>,
          err |-> NoError, raised |-> <<>>]

\* try { return await fn(); }
RetryReturn ==
  /\ rt.status = "calling"
  /\ rt.mode = "any"
  /\ rt' = [rt EXCEPT !.ncalls = @ + 1, !.status = "returned"]
  /\ UNCHANGED <<env, s3, calls, localCache, s3Store, probe>>

\* catch (err) { attempt++; if (attempt >= times) throw err; await timer }
RetryFail ==
  /\ rt.status = "calling"
  /\ LET n == rt.ncalls + 1
         e == OpError(n)
         c == RetryCatch(rt.attempt, rt.times, rt.delayMs)
     IN rt' = [rt EXCEPT !.ncalls = n,
                         !.attempt = c.attempt,
                         !.raised = Append(@, e),
                         !.err = IF c.rethrow THEN e ELSE @,
                         !.waits = IF c.rethrow THEN @ ELSE Append(@, c.delay),
                         !.status = IF c.rethrow THEN "thrown" ELSE "waiting"]
  /\ UNCHANGED <<env, s3, calls, localCache, s3Store, probe>>

\* the timer of the backoff fires and the loop calls fn again
RetryTimer ==
  /\ rt.status = "waiting"
  /\ rt' = [rt EXCEPT !.status = "calling"]
  /\ UNCHANGED <<env, s3, calls, localCache, s3Store, probe>>

(***************************************************************************)
(* Text helpers.                                                           *)
(***************************************************************************)
\* encodeURIComponent on the tokens used here: only "/" is escaped
EncodeURIComponent(s) == [i \in 1..Len(s) |-> IF s[i] = "/" THEN "%2F" ELSE s[i]]

LowerTok(t) == CASE t = "A" -> "a" [] t = "B" -> "b" [] OTHER -> t
ToLower(s) == [i \in 1..Len(s) |-> LowerTok(s[i])]

\* JS truthiness of an optional string field: present and not ''
Truthy(o) == IsSome(o) /\ Val(o) # <<>>


(***************************************************************************)
(* Asset location (importLottieAnimation, step 2).                         *)
(* detail = [files, animation_url, download_url, preview]; files is an      *)
(* optional [entries], the sequence (Object.keys order) of [key, entry],   *)
(* entry an optional [url, download_url]; a URL field is an optional text. *)
(***************************************************************************)
EntryUrlsPrimaryOnly(entry) ==
  IF ~IsSome(entry) THEN <<>>
  ELSE (IF Truthy(Val(entry).url) THEN <<Val(Val(entry).url)>> ELSE <<>>)

\* if (!entry) continue; push entry.url, then entry.download_url, if truthy
EntryUrls(entry) ==
  IF ~IsSome(entry) THEN <<>>
  ELSE (IF Truthy(Val(entry).url) THEN <<Val(Val(entry).url)>> ELSE <<>>)
       \o (IF Truthy(Val(entry).download_url)
           THEN <<Val(Val(entry).download_url)>> ELSE <<>>)

RECURSIVE FilesUrls(_)
FilesUrls(files) ==
  IF files = <<>> THEN <<>>
  ELSE EntryUrls(Head(files).entry) \o FilesUrls(Tail(files))

TopLevelUrlsNoPreview(detail) ==
  (IF Truthy(detail.animation_url) THEN <<Val(detail.animation_url)>> ELSE <<>>)
  \o (IF Truthy(detail.download_url) THEN <<Val(detail.download_url)>> ELSE <<>>)

TopLevelUrls(detail) ==
  (IF Truthy(detail.animation_url) THEN <<Val(detail.animation_url)>> ELSE <<>>)
  \o (IF Truthy(detail.download_url) THEN <<Val(detail.download_url)>> ELSE <<>>)
  \o (IF Truthy(detail.preview) THEN <<Val(detail.preview)>> ELSE <<>>)

CandidateUrlsTopLevelFirst(detail) ==
  TopLevelUrls(detail)
  \o (IF IsSome(detail.files) THEN FilesUrls(Val(detail.files).entries) ELSE <<>>)

CandidateUrls(detail) ==
  (IF IsSome(detail.files) THEN FilesUrls(Val(detail.files).entries) ELSE <<>>)
  \o TopLevelUrls(detail)

\* [...new Set(xs)]: first occurrences, in order
RECURSIVE DedupFrom(_, _)
DedupFrom(xs, seen) ==
  IF xs = <<>> THEN <<>>
  ELSE IF Head(xs) \in seen THEN DedupFrom(Tail(xs), seen)
  ELSE <<Head(xs)>> \o DedupFrom(Tail(xs), seen \cup {Head(xs)})

NonEmptyText(u) == u # <<>>
UniqueUrls(detail) == SelectSeq(DedupFrom(CandidateUrls(detail), {}), NonEmptyText)

EndsWithDotJson(u) == Len(u) >= 2 /\ u[Len(u) - 1] = "." /\ u[Len(u)] = "json"
IncludesJson(u) == \E i \in 1..Len(u) : u[i] = "json"
LooksJson(u) == EndsWithDotJson(u) \/ IncludesJson(u)

\* urls.find(looksJson) || urls[0], for a non-empty list
PickJsonUrl(urls) ==
  IF \E i \in 1..Len(urls) : LooksJson(urls[i])
  THEN urls[CHOOSE i \in 1..Len(urls) :
              LooksJson(urls[i]) /\ \A j \in 1..(i - 1) : ~LooksJson(urls[j])]
  ELSE urls[1]

(***************************************************************************)
(* Content processing (steps 4 and 5): JSON.parse, JSON.stringify, gzip,   *)
(* sha1.  The JSON texts are those over the tokens "[", "]", "1" and " ":  *)
(* a value is 1, [] or [value]; white space may surround any token.        *)
(* A parsed value is [depth, leaf]: leaf 1 or [] inside `depth` arrays.    *)
(***************************************************************************)
RECURSIVE SkipWs(_)
SkipWs(s) == IF s # <<>> /\ Head(s) = " " THEN SkipWs(Tail(s)) ELSE s

ParseFail == [ok |-> FALSE, depth |-> 0, leaf |-> "none", rest |-> <<>>]

RECURSIVE ParseValue(_)
ParseValue(s0) ==
  LET s == SkipWs(s0) IN
  IF s = <<>> THEN ParseFail
  ELSE IF Head(s) = "1"
    THEN [ok |-> TRUE, depth |-> 0, leaf |-> "1", rest |-> Tail(s)]
  ELSE IF Head(s) = "["
    THEN LET s2 == SkipWs(Tail(s)) IN
         IF s2 # <<>> /\ Head(s2) = "]"
         THEN [ok |-> TRUE, depth |-> 0, leaf |-> "[]", rest |-> Tail(s2)]
         ELSE LET r == ParseValue(s2)
                  s3r == SkipWs(r.rest)
              IN IF r.ok /\ s3r # <<>> /\ Head(s3r) = "]"
                 THEN [ok |-> TRUE, depth |-> r.depth + 1, leaf |-> r.leaf,
                       rest |-> Tail(s3r)]
                 ELSE ParseFail
  ELSE ParseFail

JsonParse(s) ==
  LET r == ParseValue(s) IN
  IF r.ok /\ SkipWs(r.rest) = <<>> THEN r ELSE ParseFail

JsonStringify(v) ==
  [i \in 1..v.depth |-> "["]
  \o (IF v.leaf = "1" THEN <<"1">> ELSE <<"[", "]">>)
  \o [i \in 1..v.depth |-> "]"]

\* gzip is deterministic and lossless: header, deflated payload, trailer
Gzip(bytes) == <<"1f8b">> \o bytes \o <<"crc">>

Code(t) ==
  CASE t = "[" -> 1 [] t = "]" -> 2 [] t = "1" -> 3 [] t = " " -> 4
    [] t = "1f8b" -> 5 [] t = "crc" -> 6 [] OTHER -> 7

HexDigit(n) ==
  CASE n = 0 -> "0" [] n = 1 -> "1" [] n = 2 -> "2" [] n = 3 -> "3"
    [] n = 4 -> "4" [] n = 5 -> "5" [] n = 6 -> "6" [] n = 7 -> "7"
    [] n = 8 -> "8" [] n = 9 -> "9" [] n = 10 -> "a" [] n = 11 -> "b"
    [] n = 12 -> "c" [] n = 13 -> "d" [] n = 14 -> "e" [] OTHER -> "f"

RECURSIVE Mix(_, _)
Mix(bytes, h) ==
  IF bytes = <<>> THEN h ELSE Mix(Tail(bytes), (h * 33 + Code(Head(bytes))) % 65521)

Sha1HexLen == 40
HashLen == 12

\* crypto.createHash('sha1').update(bytes).digest('hex')
Sha1Hex(bytes) == [i \in 1..Sha1HexLen |-> HexDigit((Mix(bytes, i) \div i) % 16)]

ContentHashOfPayload(gz) ==
  SubSeq(Sha1Hex(SubSeq(gz, 2, Len(gz) - 1)), 1, HashLen)

\* .slice(0, 12)
ContentHash(gz) == SubSeq(Sha1Hex(gz), 1, HashLen)

OutNameNoHash(providerId, hash) ==
  <<"lottie", "_">> \o providerId \o <<".json", ".gz">>

\* `lottie_${providerId}_${hash}.json.gz`
OutName(providerId, hash) ==
  <<"lottie", "_">> \o providerId \o <<"_">> \o hash \o <<".json", ".gz">>

CacheDir == <<"cache", "/", "lottie">>
\* path.join(DEFAULT_CACHE_DIR, outName)
LocalPath(outName) == CacheDir \o <<"/">> \o outName

manifestIdFromProviderOnly(providerId, hash) ==
  <<"lottie_import", "_">> \o providerId

\* `lottie_import_${providerId}_${hash}`
manifestIdFrom(providerId, hash) ==
  <<"lottie_import", "_">> \o providerId \o <<"_">> \o hash

generateDefaultSequenceTemplate(effectId) ==
  [name |-> effectId,
   phases |-> <<"lottie_charge", "lottie_projectile", "lottie_impact">>]

(***************************************************************************)
(* The environment of the adapter: what the provider and S3 may answer.    *)
(***************************************************************************)
Calls == {"c1", "c2"}

ProviderIds == {<<"a", "b">>, <<"A", "b">>}
Queries == {<<"fire">>}
ImportOptions == [generateTemplate : BOOLEAN, targetS3Bucket : {None, Some(<<"alt">>)}]
Statuses == {200, 404, 500}
\* res.ok
StatusOk(status) == status >= 200 /\ status < 300

UJson == <<"a", ".", "json">>
UJsonB == <<"json", "/", "b">>
UPlain == <<"p", ".", "lottie">>
UPrev == <<"v", ".", "gif">>

NoFiles == [entries |-> <<>>]
DetailOf(f, a, d, p) == [files |-> f, animation_url |-> a, download_url |-> d, preview |-> p]
Entry(u, d) == Some([url |-> u, download_url |-> d])

FilesChoices ==
  { None,
    Some(NoFiles),
    Some([entries |-> <<[key |-> "gif", entry |-> None],
                        [key |-> "json", entry |-> Entry(Some(<<>>), None)]>>]),
    Some([entries |-> <<[key |-> "json", entry |-> Entry(None, Some(UJson))]>>]),
    Some([entries |-> <<[key |-> "gif", entry |-> Entry(Some(UPlain), Some(UJsonB))],
                        [key |-> "json", entry |-> Entry(Some(UJson), Some(UPlain))]>>]) }

\* the detail objects the provider may answer with
Details ==
  { DetailOf(f, a, d, p) :
      f \in FilesChoices, a \in {None, Some(UPlain)}, d \in {None, Some(<<>>)},
      p \in {None, Some(UPrev)} }
  \cup { DetailOf(Some([entries |-> <<[key |-> "lottie",
                                       entry |-> Entry(Some(UPlain), None)]>>]),
                  Some(UJson), None, None) }

BodyAlphabet == {"[", "]", "1", " "}
Bodies == UNION {[1..n -> BodyAlphabet] : n \in 0..MaxBodyLen}

ErrText == <<"oops">>
NoDetail == DetailOf(None, None, None, None)

\* what fetch() does for a provider request: it rejects (network error) or
\* resolves with a response of any status
ProviderOutcomes ==
  {[kind |-> "reject", status |-> 0, text |-> <<>>, detail |-> NoDetail]}
  \cup {[kind |-> "response", status |-> st, text |-> ErrText, detail |-> NoDetail] :
          st \in Statuses \ {200}}
  \cup {[kind |-> "response", status |-> 200, text |-> <<>>, detail |-> d] : d \in Details}

DownloadOutcomes ==
  {[kind |-> "reject", status |-> 0, buffer |-> <<>>]}
  \cup {[kind |-> "response", status |-> st, buffer |-> <<>>] : st \in Statuses \ {200}}
  \cup {[kind |-> "response", status |-> 200, buffer |-> b] : b \in Bodies}

(***************************************************************************)
(* Errors thrown by the adapter.                                           *)
(***************************************************************************)
Err(kind, status, text) == [kind |-> kind, status |-> status, text |-> text]
ConfigurationError == Err("ConfigurationError", 0, <<>>)
FetchError == Err("FetchError", 0, <<>>)
ProviderRequestFailed(status, text) == Err("ProviderRequestFailed", status, text)
NoDownloadableAsset == Err("NoDownloadableAsset", 0, <<>>)
DownloadFailed(status) == Err("DownloadFailed", status, <<>>)
InvalidPayload == Err("InvalidPayload", 0, <<>>)
StorageWriteFailed == Err("StorageWriteFailed", 0, <<>>)

(***************************************************************************)
(* A call of searchLottieFiles or importLottieAnimation: its position (pc) *)
(* and locals, and counts of what it did so far.                           *)
(***************************************************************************)
IdleCall ==
  [op |-> "none", pc |-> "idle", providerId |-> <<>>, query |-> <<>>,
   options |-> [generateTemplate |-> FALSE, targetS3Bucket |-> None],
   attempt |-> 0, nRetry |-> 0, waits |-> <<>>,
   nReq |-> 0, nReqNonOk |-> 0, nDl |-> 0, nDlNonOk |-> 0, nDlOk |-> 0,
   lastDlUrl |-> <<>>,
   detail |-> None, urls |-> <<>>, jsonUrl |-> <<>>,
   gz |-> <<>>, hash |-> <<>>, outName |-> <<>>,
   nLocalWrite |-> 0, nUpload |-> 0, bucket |-> None,
   result |-> None, error |-> None]

Fail(call, err) == [call EXCEPT !.pc = "failed", !.error = Some(err)]

ProviderAttempts == 3
ProviderDelay == 300
DownloadAttempts == 3
DownloadDelay == 400

KeyConfiguredAlways(e) == TRUE
\* const key = process.env.LOTTIE_API_KEY; if (!key) throw ...
KeyConfigured(e) == e.apiKey

(***************************************************************************)
(* importLottieAnimation, between its awaits.                              *)
(***************************************************************************)
\* entry: the credential check, then retry(fetch detail) is entered
ImportBegin(call, providerId, options, e) ==
  LET c0 == [call EXCEPT !.op = "import", !.providerId = providerId,
                         !.options = options]
  IN IF ~KeyConfigured(e) THEN Fail(c0, ConfigurationError)
     ELSE [c0 EXCEPT !.pc = "detailFetch", !.attempt = 0, !.nRetry = @ + 1]

\* step 2, on a detail that was fetched: locate, pick, enter retry(download)
Locate(call, detail) ==
  LET urls == UniqueUrls(detail)
      c1 == [call EXCEPT !.detail = Some(detail), !.urls = urls]
  IN IF Len(urls) = 0 THEN Fail(c1, NoDownloadableAsset)
     ELSE [c1 EXCEPT !.jsonUrl = PickJsonUrl(urls), !.pc = "download",
                     !.attempt = 0, !.nRetry = @ + 1]

\* if (!detailRes.ok) { ...; e.status = detailRes.status; throw e; }
DetailNotOk(call, o) == Fail(call, ProviderRequestFailed(o.status, o.text))

\* one call of fetch(detailUrl) inside retry(..., 3, 300), and what follows
DetailResponse(call, o) ==
  LET c1 == [call EXCEPT !.nReq = @ + 1,
                         !.nReqNonOk = @ + (IF o.kind = "response" /\ ~StatusOk(o.status)
                                            THEN 1 ELSE 0)]
  IN IF o.kind = "reject"
     THEN LET r == RetryCatch(call.attempt, ProviderAttempts, ProviderDelay)
              c2 == [c1 EXCEPT !.attempt = r.attempt]
          IN IF r.rethrow THEN Fail(c2, FetchError)
             ELSE [c2 EXCEPT !.waits = Append(@, r.delay), !.pc = "detailWait"]
     ELSE IF ~StatusOk(o.status) THEN DetailNotOk(c1, o)
     ELSE Locate(c1, o.detail)

ContentFail ==
  [ok |-> FALSE, minified |-> <<>>, gz |-> <<>>, hash |-> <<>>, outName |-> <<>>]

\* the raw buffer compressed and hashed as downloaded, without the minify
ProcessContentRaw(providerId, buffer) ==
  LET parsed == JsonParse(buffer) IN
  IF ~parsed.ok THEN ContentFail
  ELSE LET minified == JsonStringify(parsed)
           gz == Gzip(buffer)
           hash == ContentHash(gz)
       IN [ok |-> TRUE, minified |-> minified, gz |-> gz, hash |-> hash,
           outName |-> OutName(providerId, hash)]

\* steps 4 and 5 and the file name: parse, minify, gzip, hash, name
ProcessContent(providerId, buffer) ==
  LET parsed == JsonParse(buffer) IN
  IF ~parsed.ok THEN ContentFail
  ELSE LET minified == JsonStringify(parsed)
           gz == Gzip(minified)
           hash == ContentHash(gz)
       IN [ok |-> TRUE, minified |-> minified, gz |-> gz, hash |-> hash,
           outName |-> OutName(providerId, hash)]

\* the parse failure retried like a failed download attempt
AfterDownloadRetrying(call, buffer) ==
  LET p == ProcessContent(call.providerId, buffer) IN
  IF ~p.ok
  THEN LET r == RetryCatch(call.attempt, DownloadAttempts, DownloadDelay)
           c1 == [call EXCEPT !.attempt = r.attempt]
       IN IF r.rethrow THEN Fail(c1, InvalidPayload)
          ELSE [c1 EXCEPT !.waits = Append(@, r.delay), !.pc = "downloadWait"]
  ELSE [call EXCEPT !.gz = p.gz, !.hash = p.hash, !.outName = p.outName,
                    !.pc = "writeLocal"]

\* the buffer stored as downloaded when it does not parse
AfterDownloadStoreUnvalidated(call, buffer) ==
  LET p == ProcessContent(call.providerId, buffer)
      gz == Gzip(buffer)
  IN IF ~p.ok
     THEN [call EXCEPT !.gz = gz, !.hash = ContentHash(gz),
                       !.outName = OutName(call.providerId, ContentHash(gz)),
                       !.pc = "writeLocal"]
     ELSE [call EXCEPT !.gz = p.gz, !.hash = p.hash, !.outName = p.outName,
                       !.pc = "writeLocal"]

\* after the download: invalid JSON is thrown, outside retry; else go on
AfterDownload(call, buffer) ==
  LET p == ProcessContent(call.providerId, buffer) IN
  IF ~p.ok THEN Fail(call, InvalidPayload)
  ELSE [call EXCEPT !.gz = p.gz, !.hash = p.hash, !.outName = p.outName,
                    !.pc = "writeLocal"]

DownloadAttemptFailedOffByOne(call, err) ==
  LET r == RetryCatchOffByOne(call.attempt, DownloadAttempts, DownloadDelay)
      c1 == [call EXCEPT !.attempt = r.attempt]
  IN IF r.rethrow THEN Fail(c1, err)
     ELSE [c1 EXCEPT !.waits = Append(@, r.delay), !.pc = "downloadWait"]

\* the retried function threw: retry's catch block with times 3, delay 400
DownloadAttemptFailed(call, err) ==
  LET r == RetryCatch(call.attempt, DownloadAttempts, DownloadDelay)
      c1 == [call EXCEPT !.attempt = r.attempt]
  IN IF r.rethrow THEN Fail(c1, err)
     ELSE [c1 EXCEPT !.waits = Append(@, r.delay), !.pc = "downloadWait"]

\* one call of the retried download function, and what follows its success
DownloadResponse(call, o) ==
  LET notOk == o.kind = "response" /\ ~StatusOk(o.status)
      isOk == o.kind = "response" /\ StatusOk(o.status)
      c1 == [call EXCEPT !.nDl = @ + 1, !.lastDlUrl = call.jsonUrl,
                         !.nDlNonOk = @ + (IF notOk THEN 1 ELSE 0),
                         !.nDlOk = @ + (IF isOk THEN 1 ELSE 0)]
  IN IF o.kind = "reject" THEN DownloadAttemptFailed(c1, FetchError)
     ELSE IF notOk THEN DownloadAttemptFailed(c1, DownloadFailed(o.status))
     ELSE AfterDownload(c1, o.buffer)

\* process.env.AWS_REGION || 'us-east-1'
Region(e) == IF Truthy(e.region) THEN Val(e.region) ELSE <<"us-east-1">>

TargetBucketEnvOnly(options, e) == Val(e.bucket)

\* options.targetS3Bucket || process.env.S3_BUCKET
TargetBucket(options, e) ==
  IF Truthy(options.targetS3Bucket) THEN Val(options.targetS3Bucket) ELSE Val(e.bucket)

KeyName(outName) == <<"lottie", "/">> \o outName

RemoteUrl(bucket, e, outName) ==
  <<"https://">> \o bucket \o <<".s3.">> \o Region(e) \o <<".amazonaws.com/">>
  \o EncodeURIComponent(KeyName(outName))

FileUrl(outName) == <<"file://">> \o LocalPath(outName)

\* step 7; displayName, version and license take their fallbacks, as the
\* details modelled carry no title, name, version or license
BuildManifest(call, url) ==
  [id |-> <<"lottie_import", "_">> \o call.providerId \o <<"_">> \o call.hash,
   displayName |-> <<"Lottie", " ">> \o call.providerId,
   version |-> <<"1">>,
   license |-> <<"unknown">>,
   source |-> [provider |-> "lottiefiles", providerId |-> call.providerId],
   requiredAssets |-> <<[name |-> call.outName, type |-> "lottie",
                         mime |-> "application/json", url |-> url,
                         localPath |-> LocalPath(call.outName),
                         size |-> Len(call.gz), etag |-> call.hash]>>,
   sequenceTemplate |->
     IF call.options.generateTemplate
     THEN Some(generateDefaultSequenceTemplate(manifestIdFrom(call.providerId, call.hash)))
     ELSE None,
   rawDetail |-> Val(call.detail)]

Done(call, result) == [call EXCEPT !.pc = "done", !.result = Some(result)]

\* a write that keeps an existing file and stores a numbered copy beside it
PutFileNoClobber(cache, name, bytes) ==
  IF \E f \in cache : f.name = name
  THEN cache \cup {[name |-> name \o <<".1">>, bytes |-> bytes]}
  ELSE cache \cup {[name |-> name, bytes |-> bytes]}

\* fs.writeFile(localPath, gz): creates or overwrites
PutFile(cache, name, bytes) ==
  {f \in cache : f.name # name} \cup {[name |-> name, bytes |-> bytes]}

\* PutObjectCommand: creates or overwrites
PutObject(store, bucket, key, bytes) ==
  {x \in store : ~(x.bucket = bucket /\ x.key = key)}
  \cup {[bucket |-> bucket, key |-> key, bytes |-> bytes]}

\* if (s3 && process.env.S3_BUCKET)
RemoteConfigured(client, e) == client /\ Truthy(e.bucket)

\* after the local write: go on to the upload, or finish on the local copy
AfterLocalWrite(call, client, e) ==
  LET c1 == [call EXCEPT !.nLocalWrite = @ + 1] IN
  IF RemoteConfigured(client, e)
  THEN [c1 EXCEPT !.pc = "upload", !.bucket = Some(TargetBucket(call.options, e))]
  ELSE Done(c1, BuildManifest(c1, FileUrl(call.outName)))

UploadResponseFallback(call, ok, e) ==
  LET c1 == [call EXCEPT !.nUpload = @ + 1] IN
  IF ok THEN Done(c1, BuildManifest(c1, RemoteUrl(Val(call.bucket), e, call.outName)))
  ELSE Done(c1, BuildManifest(c1, FileUrl(call.outName)))

\* await s3.send(new PutObjectCommand(...)): it resolves, or throws
UploadResponse(call, ok, e) ==
  LET c1 == [call EXCEPT !.nUpload = @ + 1] IN
  IF ok THEN Done(c1, BuildManifest(c1, RemoteUrl(Val(call.bucket), e, call.outName)))
  ELSE Fail(c1, StorageWriteFailed)

(***************************************************************************)
(* searchLottieFiles.  A JS value is [t, v]: t its type and v its content  *)
(* as a sequence (the text of a string, <<n>> for a number, the elements   *)
(* of an array, the property read from an object).                         *)
(***************************************************************************)
JUndef == [t |-> "undefined", v |-> <<>>]
JNull == [t |-> "null", v |-> <<>>]
JStr(s) == [t |-> "str", v |-> s]
JNum(n) == [t |-> "num", v |-> <<n>>]
JList(l) == [t |-> "list", v |-> l]
JObj(prop) == [t |-> "obj", v |-> <<prop>>]

JTruthy(x) ==
  CASE x.t \in {"undefined", "null"} -> FALSE
    [] x.t = "str" -> Len(x.v) > 0
    [] x.t = "num" -> x.v[1] # 0
    [] OTHER -> TRUE

\* a || b, o.prop, o && o.prop, o?.prop
JOr(a, b) == IF JTruthy(a) THEN a ELSE b
JProp(o) == IF o.t = "obj" THEN o.v[1] ELSE JUndef
JAndProp(o) == IF JTruthy(o) THEN JProp(o) ELSE o
JOptProp(o) == IF o.t \in {"undefined", "null"} THEN JUndef ELSE JProp(o)

\* String(x) for the identifiers modelled: texts, and undefined
JString(x) == IF x.t = "str" THEN x.v ELSE <<x.t>>

\* an item of json.data: the properties the mapping reads.  images, meta
\* and license are objects holding the one property read from them
\* (thumbnail, tags, name), or absent; filesJson is item.files?.json
RawItem(id, title, thumbnail, preview, images, filesJson, license, tags, meta, duration, frames) ==
  [id |-> id, title |-> title, thumbnail |-> thumbnail, preview |-> preview,
   images |-> images, filesJson |-> filesJson, license |-> license,
   tags |-> tags, meta |-> meta, duration |-> duration, frames |-> frames]

\* the mapping of one item (ids and names other than id, title and duration
\* are absent from the items modelled)
NormalizeItem(item) ==
  [provider |-> "lottiefiles",
   providerId |-> JString(JOr(item.id, JUndef)),
   title |-> JOr(item.title, JStr(<<"Lottie">>)),
   type |-> "lottie",
   thumbnail |-> JOr(JOr(item.thumbnail, item.preview), JAndProp(item.images)),
   preview |-> JOr(JOr(item.preview, JOptProp(item.filesJson)), JNull),
   license |-> JOr(JOr(JAndProp(item.license), item.license), JStr(<<"unknown">>)),
   tags |-> JOr(JOr(item.tags, JAndProp(item.meta)), JList(<<>>)),
   score |-> 1,
   meta |-> [duration_ms |-> JOr(item.duration, JNull),
             frames |-> JOr(item.frames, JNull)]]

ItemBare ==
  RawItem(JStr(<<"7">>), JUndef, JUndef, JUndef, JUndef, JUndef, JUndef, JUndef,
          JUndef, JUndef, JUndef)
ItemFull ==
  RawItem(JStr(<<"8">>), JStr(<<"Fire">>), JStr(UPrev), JStr(UJson),
          JObj(JStr(UPrev)), JObj(JStr(UJson)), JObj(JStr(<<"MIT">>)),
          JList(<<"hot">>), JObj(JList(<<"warm">>)), JNum(900), JNum(54))

DefaultPage == 1
DefaultPerPage == 24

\* the bodies of a successful search response: [data, total]
SearchBodies ==
  {[data |-> None, total |-> 0],
   [data |-> Some(<<ItemBare, ItemFull>>), total |-> 0],
   [data |-> Some(<<ItemFull>>), total |-> 40]}

SearchOutcomes ==
  {[kind |-> "reject", status |-> 0, text |-> <<>>, body |-> [data |-> None, total |-> 0]]}
  \cup {[kind |-> "response", status |-> st, text |-> ErrText,
         body |-> [data |-> None, total |-> 0]] : st \in Statuses \ {200}}
  \cup {[kind |-> "response", status |-> 200, text |-> <<>>, body |-> b] : b \in SearchBodies}

\* entry: the credential check, then retry(fetch search) is entered
SearchBegin(call, query, e) ==
  LET c0 == [call EXCEPT !.op = "search", !.query = query]
  IN IF ~KeyConfigured(e) THEN Fail(c0, ConfigurationError)
     ELSE [c0 EXCEPT !.pc = "searchFetch", !.attempt = 0, !.nRetry = @ + 1]

\* lines 63 to 89: json.data || [] mapped, total falling back to the count
NormalizeSearch(query, body) ==
  LET data == IF IsSome(body.data) THEN Val(body.data) ELSE <<>>
      items == [i \in 1..Len(data) |-> NormalizeItem(data[i])]
  IN [query |-> query, page |-> DefaultPage, per_page |-> DefaultPerPage,
      total |-> IF body.total # 0 THEN body.total ELSE Len(items),
      results |-> items]

\* one call of fetch(url) inside retry(..., 3, 300), and what follows
SearchResponse(call, o) ==
  LET c1 == [call EXCEPT !.nReq = @ + 1,
                         !.nReqNonOk = @ + (IF o.kind = "response" /\ ~StatusOk(o.status)
                                            THEN 1 ELSE 0)]
  IN IF o.kind = "reject"
     THEN LET r == RetryCatch(call.attempt, ProviderAttempts, ProviderDelay)
              c2 == [c1 EXCEPT !.attempt = r.attempt]
          IN IF r.rethrow THEN Fail(c2, FetchError)
             ELSE [c2 EXCEPT !.waits = Append(@, r.delay), !.pc = "searchWait"]
     ELSE IF ~StatusOk(o.status)
       THEN Fail(c1, ProviderRequestFailed(o.status, o.text))
     ELSE Done(c1, NormalizeSearch(call.query, o.body))

(***************************************************************************)
(* The adapter as a state machine: each call advances from one await to    *)
(* the next, and calls interleave freely.                                  *)
(***************************************************************************)
Envs == [apiKey : BOOLEAN, bucket : {None, Some(<<"main">>)}, region : {None}]

AdapterInit ==
  /\ env \in Envs
  /\ s3 = Truthy(env.bucket)
  /\ calls = [c \in Calls |-> IdleCall]
  /\ localCache = {}
  /\ s3Store = {}

SearchStart(c) ==
  /\ calls[c].pc = "idle"
  /\ \E q \in Queries : calls' = [calls EXCEPT ![c] = SearchBegin(@, q, env)]
  /\ UNCHANGED <<env, s3, localCache, s3Store, rt, probe>>

SearchFetch(c) ==
  /\ calls[c].pc = "searchFetch"
  /\ \E o \in SearchOutcomes : calls' = [calls EXCEPT ![c] = SearchResponse(@, o)]
  /\ UNCHANGED <<env, s3, localCache, s3Store, rt, probe>>

ImportStart(c) ==
  /\ calls[c].pc = "idle"
  /\ \E p \in ProviderIds, opt \in ImportOptions :
       calls' = [calls EXCEPT ![c] = ImportBegin(@, p, opt, env)]
  /\ UNCHANGED <<env, s3, localCache, s3Store, rt, probe>>

DetailFetch(c) ==
  /\ calls[c].pc = "detailFetch"
  /\ \E o \in ProviderOutcomes : calls' = [calls EXCEPT ![c] = DetailResponse(@, o)]
  /\ UNCHANGED <<env, s3, localCache, s3Store, rt, probe>>

\* the backoff timer of a retry fires: the loop calls the function again
BackoffElapsed(c) ==
  /\ calls[c].pc \in {"searchWait", "detailWait", "downloadWait"}
  /\ calls' = [calls EXCEPT ![c].pc =
                 CASE @ = "searchWait" -> "searchFetch"
                   [] @ = "detailWait" -> "detailFetch"
                   [] OTHER -> "download"]
  /\ UNCHANGED <<env, s3, localCache, s3Store, rt, probe>>

Download(c) ==
  /\ calls[c].pc = "download"
  /\ \E o \in DownloadOutcomes : calls' = [calls EXCEPT ![c] = DownloadResponse(@, o)]
  /\ UNCHANGED <<env, s3, localCache, s3Store, rt, probe>>

\* await ensureCacheDir(); await fs.writeFile(localPath, gz); then step 6
WriteLocal(c) ==
  /\ calls[c].pc = "writeLocal"
  /\ localCache' = PutFile(localCache, calls[c].outName, calls[c].gz)
  /\ calls' = [calls EXCEPT ![c] = AfterLocalWrite(@, s3, env)]
  /\ UNCHANGED <<env, s3, s3Store, rt, probe>>

Upload(c) ==
  /\ calls[c].pc = "upload"
  /\ \E ok \in BOOLEAN :
       /\ calls' = [calls EXCEPT ![c] = UploadResponse(@, ok, env)]
       /\ s3Store' = IF ok
                     THEN PutObject(s3Store, Val(calls[c].bucket),
                                    KeyName(calls[c].outName), calls[c].gz)
                     ELSE s3Store
  /\ UNCHANGED <<env, s3, localCache, rt, probe>>

\* the calls that run in Spec: one call, from a fresh process
Solo == {"c1"}

AdapterNext ==
  \E c \in Solo :
    \/ SearchStart(c)
    \/ SearchFetch(c)
    \/ ImportStart(c)
    \/ DetailFetch(c)
    \/ BackoffElapsed(c)
    \/ Download(c)
    \/ WriteLocal(c)
    \/ Upload(c)

RtIdle ==
  [times |-> 0, delayMs |-> 0, mode |-> "any", status |-> "returned",
   attempt |-> 0, ncalls |-> 0, waits |-> <<>>, err |-> NoError, raised |-> <<>>]

ProbeIdle ==
  [status |-> "idle", idA |-> <<>>, idB |-> <<>>, lenA |-> 0, lenB |-> 0,
   a |-> ContentFail, b |-> ContentFail]

Init == AdapterInit /\ rt = RtIdle /\ probe = ProbeIdle
Next == AdapterNext
Spec == Init /\ [][Next]_vars

(***************************************************************************)
(* The stand-alone retry run, the adapter idle.                            *)
(***************************************************************************)
InitRetry ==
  /\ RtInit
  /\ env = [apiKey |-> FALSE, bucket |-> None, region |-> None]
  /\ s3 = FALSE
  /\ calls = [c \in Calls |-> IdleCall]
  /\ localCache = {}
  /\ s3Store = {}
  /\ probe = ProbeIdle

NextRetry == RetryReturn \/ RetryFail \/ RetryTimer
SpecRetry == InitRetry /\ [][NextRetry]_vars
FairSpecRetry == SpecRetry /\ WF_vars(NextRetry)

(***************************************************************************)
(* Content processing as a function: two (providerId, body) inputs taken   *)
(* through steps 4 and 5 and the naming, side by side.                     *)
(***************************************************************************)
ProcessPair ==
  /\ probe.status = "idle"
  /\ \E pa \in ProviderIds, pb \in ProviderIds, ba \in Bodies, bb \in Bodies :
       probe' = [status |-> "processed", idA |-> pa, idB |-> pb,
                 lenA |-> Len(ba), lenB |-> Len(bb),
                 a |-> ProcessContent(pa, ba), b |-> ProcessContent(pb, bb)]
  /\ UNCHANGED <<env, s3, calls, localCache, s3Store, rt>>

InitContent ==
  /\ probe = ProbeIdle
  /\ rt = RtIdle
  /\ env = [apiKey |-> FALSE, bucket |-> None, region |-> None]
  /\ s3 = FALSE
  /\ calls = [c \in Calls |-> IdleCall]
  /\ localCache = {}
  /\ s3Store = {}

NextContent == ProcessPair
SpecContent == InitContent /\ [][NextContent]_vars

(***************************************************************************)
(* Two imports in flight at once.  importLottieAnimation is async and      *)
(* holds no lock, so the steps of two calls interleave at every await.     *)
(* The provider answers every request of these runs with success: the      *)
(* detail of one animation, and any body as the download.                  *)
(***************************************************************************)
PairEnvs == {e \in Envs : e.apiKey}
PairOptions == {o \in ImportOptions : ~o.generateTemplate}
PairDetail == DetailOf(None, Some(UJson), None, None)

PairStart(c) ==
  /\ calls[c].pc = "idle"
  /\ \E p \in ProviderIds, opt \in PairOptions :
       calls' = [calls EXCEPT ![c] = ImportBegin(@, p, opt, env)]
  /\ UNCHANGED <<env, s3, localCache, s3Store, rt, probe>>

PairDetailFetch(c) ==
  /\ calls[c].pc = "detailFetch"
  /\ calls' = [calls EXCEPT ![c] =
                 DetailResponse(@, [kind |-> "response", status |-> 200,
                                    text |-> <<>>, detail |-> PairDetail])]
  /\ UNCHANGED <<env, s3, localCache, s3Store, rt, probe>>

PairDownload(c) ==
  /\ calls[c].pc = "download"
  /\ \E b \in Bodies :
       calls' = [calls EXCEPT ![c] =
                   DownloadResponse(@, [kind |-> "response", status |-> 200,
                                        buffer |-> b])]
  /\ UNCHANGED <<env, s3, localCache, s3Store, rt, probe>>

InitPair ==
  /\ env \in PairEnvs
  /\ s3 = Truthy(env.bucket)
  /\ calls = [c \in Calls |-> IdleCall]
  /\ localCache = {}
  /\ s3Store = {}
  /\ rt = RtIdle
  /\ probe = ProbeIdle

NextPair ==
  \E c \in Calls :
    \/ PairStart(c)
    \/ PairDetailFetch(c)
    \/ PairDownload(c)
    \/ WriteLocal(c)
    \/ Upload(c)

SpecPair == InitPair /\ [][NextPair]_vars

(***************************************************************************)
(* Imports one after the other: a caller that awaits each import before    *)
(* it starts the next, so a call starts only when no other is in flight.   *)
(***************************************************************************)
SeqStart(c) ==
  /\ \A d \in Calls \ {c} : calls[d].pc \in {"idle", "done", "failed"}
  /\ PairStart(c)

NextReimport ==
  \E c \in Calls :
    \/ SeqStart(c)
    \/ PairDetailFetch(c)
    \/ PairDownload(c)
    \/ WriteLocal(c)
    \/ Upload(c)

SpecReimport == InitPair /\ [][NextReimport]_vars

(***************************************************************************)
(* Properties.                                                             *)
(***************************************************************************)

\* C1: for times >= 1 and an operation that fails on every call, retry
\* calls it exactly `times` times, never more, and then throws the error
\* that the last call raised; and it does get there.
C1_RetryExhaustion ==
  /\ [](rt.mode = "alwaysFail" /\ rt.times >= 1 =>
          /\ rt.ncalls <= rt.times
          /\ rt.status # "returned"
          /\ rt.status = "thrown" =>
               /\ rt.ncalls = rt.times
               /\ Len(rt.raised) = rt.times
               /\ rt.err = rt.raised[rt.times]
               /\ rt.err = OpError(rt.times))
  /\ (rt.mode = "alwaysFail" /\ rt.times >= 1) ~> (rt.status = "thrown")

C1_Witness ==
  rt.mode = "alwaysFail" /\ rt.times = 3 /\ rt.status = "thrown" /\ rt.ncalls = 3

\* C2: a download whose every request is answered with a non-success status
\* is requested exactly 3 times and the import then fails with the
\* download-failed error; there is never a 4th download request.
C2_DownloadExhaustion ==
  \A c \in Calls :
    LET k == calls[c] IN
    /\ k.nDl <= 3
    /\ (k.op = "import" /\ k.nDl > 0 /\ k.nDlNonOk = k.nDl
        /\ k.pc \notin {"download", "downloadWait"}) =>
         /\ k.nDl = 3
         /\ k.pc = "failed"
         /\ Val(k.error).kind = "DownloadFailed"
         /\ ~StatusOk(Val(k.error).status)

C2_Witness ==
  \E c \in Calls :
    /\ calls[c].pc = "failed" /\ Val(calls[c].error) = DownloadFailed(500)
    /\ calls[c].nDl = 3 /\ calls[c].nDlNonOk = 3

\* C3 (as the specification states it): when the provider answers every search or detail
\* request with a non-success status, the request is issued 3 times before
\* the call fails, and the error carries the status and the body.
C3_ProviderNonOkRetried ==
  \A c \in Calls :
    LET k == calls[c] IN
    (k.pc = "failed" /\ Val(k.error).kind = "ProviderRequestFailed"
     /\ k.nReqNonOk = k.nReq) =>
      /\ k.nReq = 3
      /\ ~StatusOk(Val(k.error).status)
      /\ Val(k.error).text = ErrText

\* C4: without the credential, a search or an import fails with the
\* configuration error, having issued no request, entered no retry, and
\* written nothing to the local cache or the remote store.
C4_NoKeyFailsFast ==
  ~env.apiKey =>
    /\ localCache = {} /\ s3Store = {}
    /\ \A c \in Calls :
         LET k == calls[c] IN
         /\ k.pc \in {"idle", "failed"}
         /\ k.pc = "failed" => Val(k.error) = ConfigurationError
         /\ k.nRetry = 0 /\ k.nReq = 0 /\ k.nDl = 0
         /\ k.nLocalWrite = 0 /\ k.nUpload = 0

C4_Witness ==
  /\ ~env.apiKey
  /\ \E c \in Calls : calls[c].op = "import" /\ calls[c].pc = "failed"

C4_WitnessSearch ==
  /\ ~env.apiKey
  /\ \E c \in Calls : calls[c].op = "search" /\ calls[c].pc = "failed"

\* C5: an import that fails with the invalid-payload error has made exactly
\* one successful download request and stored nothing, and a call whose
\* download once succeeded never requests the download again.
C5_InvalidPayloadNotRetried ==
  \A c \in Calls :
    LET k == calls[c] IN
    /\ (k.pc = "failed" /\ Val(k.error).kind = "InvalidPayload") =>
         k.nDlOk = 1 /\ k.nDl <= 3 /\ k.nLocalWrite = 0 /\ k.nUpload = 0
    /\ k.nDlOk >= 1 => k.nDlOk = 1 /\ k.pc \notin {"download", "downloadWait"}

C5_Witness ==
  \E c \in Calls :
    /\ calls[c].pc = "failed" /\ Val(calls[c].error) = InvalidPayload
    /\ calls[c].nDlOk = 1 /\ calls[c].nDl = 2

\* a detail has a URL-shaped field: a files entry with a non-empty url or
\* download_url, or a non-empty animation_url, download_url or preview
NonEmptyField(o) == o # None /\ o[1] # <<>>
HasUrlField(d) ==
  \/ /\ d.files # None
     /\ \E i \in 1..Len(d.files[1].entries) :
          LET en == d.files[1].entries[i].entry IN
          en # None /\ (NonEmptyField(en[1].url) \/ NonEmptyField(en[1].download_url))
  \/ NonEmptyField(d.animation_url)
  \/ NonEmptyField(d.download_url)
  \/ NonEmptyField(d.preview)

\* C6: an import whose detail has no URL-shaped field fails with the
\* no-downloadable-asset error, without a download request or a write; and
\* an import fails with that error in this case only: with a URL-shaped
\* field it goes on to the download.
C6_NoDownloadableAsset ==
  \A c \in Calls :
    LET k == calls[c] IN
    (k.op = "import" /\ IsSome(k.detail)) =>
      IF HasUrlField(Val(k.detail))
      THEN /\ ~(k.pc = "failed" /\ Val(k.error) = NoDownloadableAsset)
           /\ k.pc = "download" \/ k.nDl >= 1
      ELSE /\ k.pc = "failed" /\ Val(k.error) = NoDownloadableAsset
           /\ k.nDl = 0 /\ k.nLocalWrite = 0 /\ k.nUpload = 0
           /\ localCache = {} /\ s3Store = {}

C6_Witness ==
  \E c \in Calls :
    /\ calls[c].pc = "failed" /\ Val(calls[c].error) = NoDownloadableAsset
    /\ Val(calls[c].detail).download_url = Some(<<>>)
    /\ Val(calls[c].detail).files # None

C6_WitnessProceeds ==
  \E c \in Calls :
    /\ IsSome(calls[c].detail) /\ calls[c].nDl >= 1
    /\ Val(calls[c].detail).files # None
    /\ Val(calls[c].detail).preview = None

OnlyPreview(d) ==
  /\ d.files = None /\ d.animation_url = None /\ d.download_url = None
  /\ NonEmptyField(d.preview)

\* C7: for a detail whose only URL-shaped field is a top-level preview, the
\* candidate list is exactly that URL and it is the URL downloaded.
C7_PreviewOnly ==
  \A c \in Calls :
    LET k == calls[c] IN
    (k.op = "import" /\ IsSome(k.detail) /\ OnlyPreview(Val(k.detail))) =>
      /\ k.urls = <<Val(k.detail).preview[1]>>
      /\ k.jsonUrl = Val(k.detail).preview[1]
      /\ k.pc = "download" \/ k.nDl >= 1
      /\ k.nDl >= 1 => k.lastDlUrl = Val(k.detail).preview[1]

C7_Witness ==
  \E c \in Calls :
    /\ IsSome(calls[c].detail) /\ OnlyPreview(Val(calls[c].detail))
    /\ calls[c].pc = "done" /\ calls[c].lastDlUrl = UPrev

\* C8 (as the specification states it): identical canonical payload bytes give the same file
\* name, even for providerIds that differ only in letter case.
C8_SameNameIgnoringCase ==
  (probe.status = "processed" /\ probe.a.ok /\ probe.b.ok
   /\ probe.a.minified = probe.b.minified
   /\ ToLower(probe.idA) = ToLower(probe.idB)) =>
    probe.a.outName = probe.b.outName

\* C8 (amended): identical canonical payload bytes give the same content
\* hash, whatever white space the sources had, and the same file name when
\* the two providerIds are equal.
C8_SameNameSameId ==
  (probe.status = "processed" /\ probe.a.ok /\ probe.b.ok
   /\ probe.a.minified = probe.b.minified) =>
    /\ probe.a.hash = probe.b.hash
    /\ probe.idA = probe.idB => probe.a.outName = probe.b.outName

C8_Witness ==
  /\ probe.status = "processed" /\ probe.a.ok /\ probe.b.ok
  /\ probe.a.minified = probe.b.minified /\ probe.lenA # probe.lenB
  /\ probe.idA = probe.idB /\ probe.a.outName = probe.b.outName

\* C9: with the remote store configured, an upload that fails fails the
\* import: the upload was attempted once, and no manifest is returned (in
\* particular none that addresses the local copy).
C9_UploadFailureIsFatal ==
  \A c \in Calls :
    LET k == calls[c] IN
    /\ k.nUpload <= 1
    /\ (k.nUpload >= 1 /\ s3Store = {}) =>
         /\ k.pc = "failed" /\ Val(k.error) = StorageWriteFailed
         /\ k.result = None
    /\ (k.op = "import" /\ k.pc = "done" /\ RemoteConfigured(s3, env)) =>
         /\ Val(k.result).requiredAssets[1].url # FileUrl(k.outName)
         /\ k.nUpload = 1
         /\ s3Store # {}

C9_Witness ==
  \E c \in Calls :
    /\ calls[c].pc = "failed" /\ Val(calls[c].error) = StorageWriteFailed
    /\ calls[c].nUpload = 1 /\ Truthy(env.bucket)

\* C10 (as the specification states it): a finished import has stored the payload in exactly one
\* backend: with the remote store configured, an upload and no file in the
\* local cache; otherwise a local file and no upload.
C10_ExactlyOneBackend ==
  \A c \in Calls :
    LET k == calls[c] IN
    (k.op = "import" /\ k.pc = "done") =>
      IF RemoteConfigured(s3, env)
      THEN k.nUpload = 1 /\ k.nLocalWrite = 0 /\ localCache = {}
      ELSE k.nLocalWrite = 1 /\ k.nUpload = 0 /\ localCache # {}

\* the bucket an import uploads to: the option targetS3Bucket when the
\* caller gives one, else the configured S3_BUCKET
Destination(k) ==
  IF k.options.targetS3Bucket # None /\ k.options.targetS3Bucket[1] # <<>>
  THEN k.options.targetS3Bucket[1] ELSE env.bucket[1]

\* C11 (as the specification states it): the backend and its destination
\* are fixed by the process configuration, whatever options the caller
\* passes: a finished import uploaded to the configured bucket and its
\* address is built from that bucket.
C11_DestinationFromConfig ==
  \A c \in Calls :
    LET k == calls[c] IN
    (k.op = "import" /\ k.pc = "done") =>
      IF env.bucket # None
      THEN /\ k.nUpload = 1
           /\ \A x \in s3Store : x.bucket = env.bucket[1]
           /\ SubSeq(Val(k.result).requiredAssets[1].url, 1, 2)
                = <<"https://">> \o env.bucket[1]
      ELSE /\ k.nUpload = 0 /\ s3Store = {}
           /\ Val(k.result).requiredAssets[1].url[1] = "file://"

\* C11 (amended): the backend variant is fixed by the process
\* configuration, whatever options the caller passes; the bucket of the
\* remote variant is the option targetS3Bucket when given, else the
\* configured one, and the address is built from the bucket uploaded to.
C11_DestinationOverridable ==
  \A c \in Calls :
    LET k == calls[c] IN
    (k.op = "import" /\ k.pc = "done") =>
      IF env.bucket # None
      THEN /\ k.nUpload = 1
           /\ \A x \in s3Store : x.bucket = Destination(k)
           /\ s3Store # {}
           /\ SubSeq(Val(k.result).requiredAssets[1].url, 1, 2)
                = <<"https://">> \o Destination(k)
      ELSE /\ k.nUpload = 0 /\ s3Store = {}
           /\ Val(k.result).requiredAssets[1].url[1] = "file://"

C11_Witness ==
  \E c \in Calls :
    /\ calls[c].op = "import" /\ calls[c].pc = "done"
    /\ calls[c].options.targetS3Bucket = Some(<<"alt">>)
    /\ \E x \in s3Store : x.bucket = <<"alt">>

\* C12: every optional attribute of a normalized search result (thumbnail,
\* preview, tags, duration, frame count) is present with a value or an
\* explicit empty value; none is ever missing or undefined.
C12_NoMissingAttribute ==
  \A c \in Calls :
    LET k == calls[c] IN
    (k.op = "search" /\ k.pc = "done") =>
      \A i \in 1..Len(Val(k.result).results) :
        LET r == Val(k.result).results[i] IN
        /\ r.thumbnail.t # "undefined"
        /\ r.preview.t # "undefined"
        /\ r.tags.t # "undefined"
        /\ r.meta.duration_ms.t # "undefined"
        /\ r.meta.frames.t # "undefined"

HexDigits ==
  {"0", "1", "2", "3", "4", "5", "6", "7", "8", "9", "a", "b", "c", "d", "e", "f"}

\* C13: the manifest of a successful import describes the object stored by
\* it: one requiredAssets entry, named lottie_{providerId}_{hash}.json.gz
\* as the file written, whose etag is the 12 hex digits of the digest of
\* the bytes written and whose size is their length; the id is
\* lottie_import_{providerId}_{hash} and source.providerId is the argument.
C13_ManifestDescribesStored ==
  \A c \in Calls :
    LET k == calls[c] IN
    (k.op = "import" /\ k.pc = "done") =>
      LET m == Val(k.result)
          a == m.requiredAssets[1]
      IN /\ Len(m.requiredAssets) = 1
         /\ Len(a.etag) = 12
         /\ \A i \in 1..Len(a.etag) : a.etag[i] \in HexDigits
         /\ a.name = <<"lottie", "_">> \o k.providerId \o <<"_">> \o a.etag
                       \o <<".json", ".gz">>
         /\ m.id = <<"lottie_import", "_">> \o k.providerId \o <<"_">> \o a.etag
         /\ m.source.providerId = k.providerId
         /\ \E f \in localCache :
              /\ f.name = a.name
              /\ a.etag = SubSeq(Sha1Hex(f.bytes), 1, 12)
              /\ a.size = Len(f.bytes)
         /\ k.nUpload = 1 =>
              \E x \in s3Store :
                /\ x.key = <<"lottie", "/">> \o a.name
                /\ a.etag = SubSeq(Sha1Hex(x.bytes), 1, 12)
                /\ a.size = Len(x.bytes)

C13_Witness ==
  \E c \in Calls :
    /\ calls[c].op = "import" /\ calls[c].pc = "done"
    /\ calls[c].providerId = <<"a", "b">>
    /\ \E f \in localCache : f.name = Val(calls[c].result).requiredAssets[1].name

\* C14: sequenceTemplate of a returned manifest is non-null exactly when
\* the caller passed generateTemplate true; it then is the three-phase
\* default and its name is the id of the same manifest.
C14_TemplateIffRequested ==
  \A c \in Calls :
    LET k == calls[c] IN
    (k.op = "import" /\ k.pc = "done") =>
      LET m == Val(k.result) IN
      /\ (m.sequenceTemplate # None) <=> k.options.generateTemplate
      /\ m.sequenceTemplate # None =>
           /\ m.sequenceTemplate[1].name = m.id
           /\ Len(m.sequenceTemplate[1].phases) = 3

C14_Witness ==
  \E c \in Calls :
    /\ calls[c].op = "import" /\ calls[c].pc = "done"
    /\ calls[c].options.generateTemplate
    /\ Val(calls[c].result).sequenceTemplate # None

\* the URL-bearing fields of a detail record in the order of discovery:
\* url then download_url of each files entry, then the top-level
\* animation_url, download_url and preview
DiscoveryOrder(detail) ==
  LET es == IF detail.files = None THEN <<>> ELSE detail.files[1].entries
      n == Len(es)
      fileField(i) ==
        LET e == es[(i + 1) \div 2].entry IN
        IF e = None THEN None
        ELSE IF i % 2 = 1 THEN e[1].url ELSE e[1].download_url
  IN [i \in 1..(2 * n + 3) |->
        IF i <= 2 * n THEN fileField(i)
        ELSE IF i = 2 * n + 1 THEN detail.animation_url
        ELSE IF i = 2 * n + 2 THEN detail.download_url
        ELSE detail.preview]

FirstAt(fields, u) ==
  CHOOSE i \in 1..Len(fields) :
    fields[i] = Some(u) /\ \A j \in 1..(i - 1) : fields[j] # Some(u)

SignalsJson(u) == \E i \in 1..Len(u) : u[i] = "json"

C17_WitnessTopLevel ==
  \E c \in Calls :
    LET k == calls[c] IN
    /\ k.op = "import" /\ k.nDl > 0
    /\ k.urls = <<UPlain, UJson>>
    /\ k.lastDlUrl = UJson

RECURSIVE SumSeq(_)
SumSeq(xs) == IF xs = <<>> THEN 0 ELSE Head(xs) + SumSeq(Tail(xs))

RECURSIVE SumTo(_)
SumTo(n) == IF n <= 0 THEN 0 ELSE n + SumTo(n - 1)

\* C18: the wait after the k-th failed call of retry is delayMs * k; a
\* wait stands only between two calls, none after the last failed call
\* or after a call that returned; a run that exhausts its attempts has
\* waited delayMs * (1 + ... + (times - 1)) in all.
C18_LinearBackoff ==
  /\ \A k \in 1..Len(rt.waits) : rt.waits[k] = rt.delayMs * k
  /\ rt.status \in {"returned", "thrown"} => Len(rt.waits) = rt.ncalls - 1
  /\ rt.status = "waiting" => Len(rt.waits) = rt.ncalls
  /\ rt.status = "calling" => Len(rt.waits) = rt.ncalls
  /\ rt.status = "thrown" =>
       SumSeq(rt.waits) = rt.delayMs * SumTo(rt.times - 1)

C18_Witness ==
  /\ rt.status = "thrown" /\ rt.times = 4 /\ rt.delayMs = 100
  /\ rt.waits = <<100, 200, 300>>

\* C20: retry calls the operation at least once whatever times is; for
\* times <= 1 (zero and negative included) it is called exactly once, a
\* return ends the run, and a failure is thrown at once, with no wait and
\* no second call.
C20_AtLeastOnce ==
  /\ rt.status \in {"returned", "thrown"} => rt.ncalls >= 1
  /\ rt.times <= 1 =>
       /\ rt.ncalls <= 1
       /\ rt.waits = <<>>
       /\ rt.status # "waiting"
       /\ rt.ncalls = 1 => rt.status \in {"returned", "thrown"}
       /\ rt.status = "thrown" => rt.err = OpError(1) /\ rt.raised = <<OpError(1)>>

C20_Witness ==
  rt.times = -1 /\ rt.status = "thrown" /\ rt.ncalls = 1

C20_WitnessReturn ==
  rt.times = 0 /\ rt.status = "returned" /\ rt.ncalls = 1

EarlyFailures ==
  {"ConfigurationError", "FetchError", "ProviderRequestFailed",
   "NoDownloadableAsset", "DownloadFailed", "InvalidPayload"}

\* the bytes are the compressed form of a text that parses as JSON
StoredValid(bytes) ==
  Len(bytes) >= 2 /\ JsonParse(SubSeq(bytes, 2, Len(bytes) - 1)).ok

\* C19: storage is written only after a download that succeeded and
\* parsed: an import that fails at the credential check, the detail
\* fetch, asset location, the download or the validation has written no
\* file and issued no upload, and the stores are as before the call.
C19_NoWriteBeforeValidation ==
  \A c \in Calls :
    LET k == calls[c] IN
    k.op = "import" =>
      /\ (k.pc = "failed" /\ k.error[1].kind \in EarlyFailures) =>
           /\ k.nLocalWrite = 0 /\ k.nUpload = 0
           /\ localCache = {} /\ s3Store = {}
      /\ (k.nLocalWrite > 0 \/ k.nUpload > 0) =>
           /\ k.nDlOk = 1
           /\ \A f \in localCache : StoredValid(f.bytes)
           /\ \A x \in s3Store : StoredValid(x.bytes)

C19_Witness ==
  \E c \in Calls :
    /\ calls[c].op = "import" /\ calls[c].pc = "failed"
    /\ calls[c].error[1].kind = "InvalidPayload"
    /\ calls[c].nDlOk = 1
    /\ env.bucket # None
    /\ localCache = {} /\ s3Store = {}

C19_WitnessStored ==
  \E c \in Calls :
    /\ calls[c].op = "import" /\ calls[c].nUpload = 1
    /\ localCache # {} /\ s3Store # {}

\* the 12 characters of a stored name that stand before ".json.gz"
NameHash(name) == SubSeq(name, Len(name) - 13, Len(name) - 2)

\* C15: under any interleaving of two imports, a write to a key that is
\* already stored (local file name, or remote bucket and key) writes the
\* bytes that are there; and every stored object holds the bytes whose
\* hash its name carries.
C15_SameKeySameBytes ==
  /\ [](/\ \A f \in localCache :
             Len(f.name) > 14 /\ NameHash(f.name) = SubSeq(Sha1Hex(f.bytes), 1, 12)
        /\ \A x \in s3Store :
             Len(x.key) > 14 /\ NameHash(x.key) = SubSeq(Sha1Hex(x.bytes), 1, 12)
        /\ \A f, g \in localCache : f.name = g.name => f = g
        /\ \A x, y \in s3Store : (x.bucket = y.bucket /\ x.key = y.key) => x = y)
  /\ [][/\ \A f \in localCache, g \in localCache' :
             f.name = g.name => f.bytes = g.bytes
        /\ \A x \in s3Store, y \in s3Store' :
             (x.bucket = y.bucket /\ x.key = y.key) => x.bytes = y.bytes]_vars

\* two calls wrote the same file name and both stand before their upload
C15_Witness ==
  /\ calls["c1"].pc = "upload" /\ calls["c2"].pc = "upload"
  /\ calls["c1"].nLocalWrite = 1 /\ calls["c2"].nLocalWrite = 1
  /\ calls["c1"].outName = calls["c2"].outName
  /\ localCache = {[name |-> calls["c1"].outName, bytes |-> calls["c1"].gz]}

\* call c is writing what the finished import d of the same providerId
\* stored: the same processed payload
Reimport(c, d) ==
  /\ c # d
  /\ calls[d].op = "import" /\ calls[d].pc = "done"
  /\ calls[c].op = "import" /\ calls[c].pc \in {"writeLocal", "upload"}
  /\ calls[c].providerId = calls[d].providerId
  /\ calls[c].gz = calls[d].gz

SameAsFirst(c, d) ==
  /\ localCache' = localCache
  /\ s3Store' = s3Store
  /\ calls'[c].pc = "done" =>
       /\ calls'[c].result[1].id = calls[d].result[1].id
       /\ calls'[c].result[1].requiredAssets[1].name
            = calls[d].result[1].requiredAssets[1].name

\* C16 (as the specification states it): a second import of the same
\* providerId and payload returns the manifest id and file name of the
\* first, and each of its writes leaves the stores as the first left them.
C16_ReimportIdempotent ==
  [][\A c, d \in Calls :
       (Reimport(c, d) /\ calls'[c] # calls[c]) => SameAsFirst(c, d)]_vars

\* C16 (amended): the same, for a second import that also names the same
\* upload destination (option targetS3Bucket) as the first.
C16_ReimportSameDestination ==
  [][\A c, d \in Calls :
       (/\ Reimport(c, d)
        /\ calls[c].options.targetS3Bucket = calls[d].options.targetS3Bucket
        /\ calls'[c] # calls[c]) => SameAsFirst(c, d)]_vars

C16_Witness ==
  /\ calls["c1"].pc = "done" /\ calls["c2"].pc = "done"
  /\ calls["c1"].providerId = calls["c2"].providerId
  /\ calls["c1"].gz = calls["c2"].gz
  /\ calls["c1"].options.targetS3Bucket = calls["c2"].options.targetS3Bucket
  /\ calls["c1"].nUpload = 1 /\ calls["c2"].nUpload = 1
  /\ calls["c1"].result[1].id = calls["c2"].result[1].id
  /\ Cardinality(s3Store) = 1 /\ Cardinality(localCache) = 1

====
